---- MODULE Spec2Model ----
(***************************************************************************)
(* california-housing-preprocessing.py: fetch the dataset, put the target  *)
(* in front of the features, split the rows 90/10 and the held-out rows    *)
(* 50/50, print four shapes, and write three headerless CSV files.         *)
(*                                                                         *)
(* The script is one straight line of statements; pc names the statement   *)
(* that runs next.  An unhandled exception ends the run: pc = "failed".    *)
(***************************************************************************)
EXTENDS Integers, Sequences, FiniteSets, TLC

VARIABLES
    pc,            \* the statement to run next, or "done" / "failed"
    err,           \* the exception that ended the run, "none" while there is none
    databunch,     \* what fetch_california_housing() returned
    dataset,       \* the combined matrix, a sequence of rows
    train,         \* rows of the train partition
    other,         \* rows held out by the first split
    validation,    \* rows of the validation partition
    test,          \* rows of the test partition
    stdout,        \* the lines printed so far
    files,         \* the filesystem under base_dir: path -> file
    written,       \* history: the paths to_csv has written, in order
    trainIdx,      \* history: index in dataset of each row of train
    otherIdx,      \* history: index in dataset of each row of other
    validationIdx, \* history: index in dataset of each row of validation
    testIdx        \* history: index in dataset of each row of test

vars == <<pc, err, databunch, dataset, train, other, validation, test, stdout,
          files, written, trainIdx, otherIdx, validationIdx, testIdx>>

data_vars == <<databunch, dataset, train, other, validation, test,
               trainIdx, otherIdx, validationIdx, testIdx>>

(***************************************************************************)
(* Bounds of the model.                                                    *)
(***************************************************************************)
MaxRows == 21          \* datasets of 1..MaxRows rows are fetched
MaxFeatures == 3       \* with 1..MaxFeatures feature columns
MaxData == 1           \* from value tables 1..MaxData
ScenarioRows == 100    \* and the dataset of the specification's scenario:
ScenarioFeatures == 3  \* 100 rows, 3 feature columns, value table 1
MaxValue == 11         \* matrix entries are the floats 0.0 .. MaxValue.0
MaxSeed == 3           \* the generator starts in one of the states 0..MaxSeed

(***************************************************************************)
(* Program constants.                                                      *)
(***************************************************************************)
TestSizeOtherNum == 1    \* test_size=0.1, as the fraction 1/10
TestSizeOtherDen == 10
TestSizeTestNum == 1     \* test_size=0.5, as the fraction 1/2
TestSizeTestDen == 2

base_dir == "/opt/ml/processing"
train_csv == base_dir \o "/train/train.csv"
validation_csv == base_dir \o "/validation/validation.csv"
test_csv == base_dir \o "/test/test.csv"
Paths == {train_csv, validation_csv, test_csv}

\* The <<rows, features, value table>> of the datasets the data source serves.
Datasets ==
    ((1..MaxRows) \X (1..MaxFeatures) \X (1..MaxData))
        \cup {<<ScenarioRows, ScenarioFeatures, 1>>}

(***************************************************************************)
(* The data source.  The values are a table of the sample index i, the     *)
(* feature index j and the table number d; the target column and the       *)
(* feature columns follow different rules, so a row whose label is moved   *)
(* or paired with another sample's features is not a row of the dataset.   *)
(***************************************************************************)
TargetValue(d, i) == (d * i * i + 1) % (MaxValue + 1)
FeatureValue(d, i, j) == (i + 3 * j + d) % (MaxValue + 1)

fetch_california_housing(n, f, d) ==
    [target |-> [i \in 1..n |-> TargetValue(d, i)],
     data   |-> [i \in 1..n |-> [j \in 1..f |-> FeatureValue(d, i, j)]]]

NoBunch == [target |-> <<>>, data |-> <<>>]

(***************************************************************************)
(* numpy: reshape(-1, 1) makes a vector a one-column matrix; concatenate   *)
(* with axis=1 puts the matrices side by side, row by row.                 *)
(***************************************************************************)
reshape(y) == [i \in 1..Len(y) |-> <<y[i]>>]

\* Mutant: the target column is put after the features.
concatenate_target_last(A, B) == [i \in 1..Len(A) |-> B[i] \o A[i]]

concatenate(A, B) == [i \in 1..Len(A) |-> A[i] \o B[i]]

shape(M) == <<Len(M), IF Len(M) = 0 THEN 0 ELSE Len(M[1])>>

(***************************************************************************)
(* sklearn.model_selection.train_test_split(a, test_size=num/den), with    *)
(* train_size, random_state and stratify left at None and shuffle at True. *)
(*                                                                         *)
(* _validate_shuffle_split: n_test = ceil(test_size * n_samples) and       *)
(* n_train = n_samples - n_test; ValueError when n_train is 0.  For the    *)
(* row counts of this model the double product test_size * n_samples       *)
(* rounds up to the same integer as the exact fraction.                    *)
(***************************************************************************)
Ceil(num, den) == (num + den - 1) \div den

\* Mutant: the test size is truncated instead of rounded up.
validate_shuffle_split_floor(n_samples, num, den) ==
    LET n_test == (num * n_samples) \div den
    IN  [n_train |-> n_samples - n_test, n_test |-> n_test]

validate_shuffle_split(n_samples, num, den) ==
    LET n_test == Ceil(num * n_samples, den)
    IN  [n_train |-> n_samples - n_test, n_test |-> n_test]

RECURSIVE Gcd(_, _)
Gcd(a, b) == IF b = 0 THEN a ELSE Gcd(b, a % b)

(***************************************************************************)
(* No random_state is passed, so the generator is seeded from the          *)
(* operating system and rng.permutation(n) may be any permutation of the   *)
(* n rows.  The model draws it from the permutations                       *)
(* i |-> (a * i + b) mod n, a coprime to n: a bounded part of them, with   *)
(* the identity among them.  State s of the generator gives the multiplier *)
(* a = 1 + s mod 2 and the shift b = s div 2.                              *)
(***************************************************************************)
Multiplier(s) == 1 + (s % 2)
Shift(s) == s \div 2

\* Mutant: a fixed random_state, one permutation for each n.
RandomStates_seeded(n) == {0}

RandomStates(n) == {s \in 0..MaxSeed : Gcd(Multiplier(s), n) = 1}

permutation(n, s) ==
    [i \in 1..n |-> ((Multiplier(s) * (i - 1) + Shift(s)) % n) + 1]

(***************************************************************************)
(* ShuffleSplit._iter_indices: the first n_test entries of the permutation *)
(* are the test rows, the next n_train entries are the train rows.         *)
(***************************************************************************)
\* Mutant: the train slice starts one entry early, on the last test row.
ShuffleSplit_overlap(perm, n_train, n_test) ==
    [ind_test  |-> SubSeq(perm, 1, n_test),
     ind_train |-> SubSeq(perm, n_test, n_test + n_train - 1)]

ShuffleSplit(perm, n_train, n_test) ==
    [ind_test  |-> SubSeq(perm, 1, n_test),
     ind_train |-> SubSeq(perm, n_test + 1, n_test + n_train)]

safe_indexing(a, ind) == [k \in 1..Len(ind) |-> a[ind[k]]]

\* The pair train_test_split returns, with the row indices it selected.
train_test_split(a, num, den, s) ==
    LET size == validate_shuffle_split(Len(a), num, den)
        ind  == ShuffleSplit(permutation(Len(a), s), size.n_train, size.n_test)
    IN  [train     |-> safe_indexing(a, ind.ind_train),
         test      |-> safe_indexing(a, ind.ind_test),
         ind_train |-> ind.ind_train,
         ind_test  |-> ind.ind_test]

\* train_test_split raises ValueError: the train side would be empty.
SplitRaises(a, num, den) == validate_shuffle_split(Len(a), num, den).n_train = 0

(***************************************************************************)
(* pandas: DataFrame(rows).to_csv(path, header=..., index=...).  A float   *)
(* is written as its shortest repr, which for the whole numbers of this    *)
(* model is the decimal digits followed by ".0"; the fields of a line are  *)
(* joined with ",".  With header the first line holds the column labels    *)
(* 0..ncols-1, and with index every line starts with the row label.        *)
(***************************************************************************)
DigitChars == <<"0", "1", "2", "3", "4", "5", "6", "7", "8", "9">>

RECURSIVE IntStr(_)
IntStr(v) == IF v < 10 THEN DigitChars[v + 1]
             ELSE IntStr(v \div 10) \o DigitChars[(v % 10) + 1]

FloatStr(v) == IntStr(v) \o ".0"

RECURSIVE Join(_)
Join(fields) == IF Len(fields) = 0 THEN ""
                ELSE IF Len(fields) = 1 THEN fields[1]
                ELSE fields[1] \o "," \o Join(Tail(fields))

to_csv(rows, header, index) ==
    LET ncols == shape(rows)[2]
        head  == Join((IF index THEN <<"">> ELSE <<>>)
                      \o [j \in 1..ncols |-> IntStr(j - 1)])
        line(k) == Join((IF index THEN <<IntStr(k - 1)>> ELSE <<>>)
                        \o [j \in 1..ncols |-> FloatStr(rows[k][j])])
    IN  (IF header THEN <<head>> ELSE <<>>) \o [k \in 1..Len(rows) |-> line(k)]

Absent == [exists |-> FALSE, lines |-> <<>>]
Stale == [exists |-> TRUE, lines |-> <<"stale">>]
File(lines) == [exists |-> TRUE, lines |-> lines]

ShapeLine(label, M) == [text |-> label \o " shape = ", shape |-> shape(M)]

----
(***************************************************************************)
(* The state before line 10 runs.  The destinations hold what an earlier   *)
(* run left: nothing, or the files it wrote before it ended.               *)
(***************************************************************************)
Init ==
    /\ pc = "fetch"
    /\ err = "none"
    /\ databunch = NoBunch
    /\ dataset = <<>>
    /\ train = <<>> /\ other = <<>> /\ validation = <<>> /\ test = <<>>
    /\ trainIdx = <<>> /\ otherIdx = <<>>
    /\ validationIdx = <<>> /\ testIdx = <<>>
    /\ stdout = <<>>
    /\ written = <<>>
    /\ \E old \in {{}, {train_csv}, {train_csv, validation_csv}, Paths} :
           files = [p \in Paths |-> IF p \in old THEN Stale ELSE Absent]

\* An unhandled exception: the traceback is printed and the process exits.
Raise(e) ==
    /\ pc' = "failed"
    /\ err' = e
    /\ UNCHANGED <<data_vars, stdout, files, written>>

\* Mutant: the three destinations are opened for writing before the fetch.
Fetch_opening_outputs ==
    /\ pc = "fetch"
    /\ \E ds \in Datasets :
           databunch' = fetch_california_housing(ds[1], ds[2], ds[3])
    /\ files' = [p \in Paths |-> File(<<>>)]
    /\ pc' = "concatenate"
    /\ UNCHANGED <<err, dataset, train, other, validation, test, stdout,
                   written, trainIdx, otherIdx, validationIdx, testIdx>>

\* line 10: databunch = fetch_california_housing()
Fetch ==
    /\ pc = "fetch"
    /\ \E ds \in Datasets :
           databunch' = fetch_california_housing(ds[1], ds[2], ds[3])
    /\ pc' = "concatenate"
    /\ UNCHANGED <<err, dataset, train, other, validation, test, stdout, files,
                   written, trainIdx, otherIdx, validationIdx, testIdx>>

\* line 10: the data source cannot be reached.
FetchFails ==
    /\ pc = "fetch"
    /\ Raise("URLError")

\* line 12: dataset = np.concatenate((target.reshape(-1, 1), data), axis=1)
Concatenate ==
    /\ pc = "concatenate"
    /\ dataset' = concatenate(reshape(databunch.target), databunch.data)
    /\ pc' = "print_dataset"
    /\ UNCHANGED <<err, databunch, train, other, validation, test, stdout, files,
                   written, trainIdx, otherIdx, validationIdx, testIdx>>

\* print(f"<label> shape = {M.shape}")
PrintShape(at, label, M, next) ==
    /\ pc = at
    /\ stdout' = Append(stdout, ShapeLine(label, M))
    /\ pc' = next
    /\ UNCHANGED <<err, data_vars, files, written>>

\* Mutant: the combined shape is not printed.
PrintDataset_omitted ==
    /\ pc = "print_dataset"
    /\ pc' = "split_train_other"
    /\ UNCHANGED <<err, data_vars, stdout, files, written>>

\* line 14
PrintDataset == PrintShape("print_dataset", "Dataset", dataset, "split_train_other")

\* line 16: train, other = train_test_split(dataset, test_size=0.1)
SplitTrainOther ==
    /\ pc = "split_train_other"
    /\ ~SplitRaises(dataset, TestSizeOtherNum, TestSizeOtherDen)
    /\ \E s \in RandomStates(Len(dataset)) :
          LET r == train_test_split(dataset, TestSizeOtherNum, TestSizeOtherDen, s)
          IN  /\ train' = r.train
              /\ other' = r.test
              /\ trainIdx' = r.ind_train
              /\ otherIdx' = r.ind_test
    /\ pc' = "split_validation_test"
    /\ UNCHANGED <<err, databunch, dataset, validation, test, stdout, files,
                   written, validationIdx, testIdx>>

\* line 16 raises ValueError.
SplitTrainOtherFails ==
    /\ pc = "split_train_other"
    /\ SplitRaises(dataset, TestSizeOtherNum, TestSizeOtherDen)
    /\ Raise("ValueError")

\* Mutant: the second split is given the combined matrix, not the held-out rows.
SplitValidationTest_of_dataset ==
    /\ pc = "split_validation_test"
    /\ ~SplitRaises(other, TestSizeTestNum, TestSizeTestDen)
    /\ \E s \in RandomStates(Len(dataset)) :
          LET r == train_test_split(dataset, TestSizeTestNum, TestSizeTestDen, s)
          IN  /\ validation' = r.train
              /\ test' = r.test
              /\ validationIdx' = r.ind_train
              /\ testIdx' = r.ind_test
    /\ pc' = "print_train"
    /\ UNCHANGED <<err, databunch, dataset, train, other, stdout, files, written,
                   trainIdx, otherIdx>>

\* line 17: validation, test = train_test_split(other, test_size=0.5)
SplitValidationTest ==
    /\ pc = "split_validation_test"
    /\ ~SplitRaises(other, TestSizeTestNum, TestSizeTestDen)
    /\ \E s \in RandomStates(Len(other)) :
          LET r == train_test_split(other, TestSizeTestNum, TestSizeTestDen, s)
          IN  /\ validation' = r.train
              /\ test' = r.test
              /\ validationIdx' = safe_indexing(otherIdx, r.ind_train)
              /\ testIdx' = safe_indexing(otherIdx, r.ind_test)
    /\ pc' = "print_train"
    /\ UNCHANGED <<err, databunch, dataset, train, other, stdout, files, written,
                   trainIdx, otherIdx>>

\* line 17 raises ValueError.
SplitValidationTestFails ==
    /\ pc = "split_validation_test"
    /\ SplitRaises(other, TestSizeTestNum, TestSizeTestDen)
    /\ Raise("ValueError")

\* lines 19-21
PrintTrain == PrintShape("print_train", "Train", train, "print_validation")
PrintValidation == PrintShape("print_validation", "Validation", validation, "print_test")
PrintTest == PrintShape("print_test", "Test", test, "write_train")

\* Mutant: header is left at its default, True.
ToCsv_header(at, M, path, next) ==
    /\ pc = at
    /\ files' = [files EXCEPT ![path] = File(to_csv(M, TRUE, FALSE))]
    /\ written' = Append(written, path)
    /\ pc' = next
    /\ UNCHANGED <<err, data_vars, stdout>>

\* pd.DataFrame(M).to_csv(path, header=False, index=False)
ToCsv(at, M, path, next) ==
    /\ pc = at
    /\ files' = [files EXCEPT ![path] = File(to_csv(M, FALSE, FALSE))]
    /\ written' = Append(written, path)
    /\ pc' = next
    /\ UNCHANGED <<err, data_vars, stdout>>

\* Mutant: the error of a write is caught and the script goes on.
ToCsvFails_swallowed(at) ==
    /\ pc = at
    /\ pc' = (IF at = "write_train" THEN "write_validation"
              ELSE IF at = "write_validation" THEN "write_test" ELSE "done")
    /\ err' = "OSError"
    /\ UNCHANGED <<data_vars, stdout, files, written>>

\* to_csv cannot open its destination (no such directory, or not writable).
ToCsvFails(at) ==
    /\ pc = at
    /\ Raise("OSError")

\* line 25
WriteTrain == ToCsv("write_train", train, train_csv, "write_validation")
WriteTrainFails == ToCsvFails("write_train")
\* Mutant: the validation rows are written to the test path.
WriteValidation_test_path == ToCsv("write_validation", validation, test_csv, "write_test")
\* lines 26-28
WriteValidation == ToCsv("write_validation", validation, validation_csv, "write_test")
WriteValidationFails == ToCsvFails("write_validation")
\* line 29
WriteTest == ToCsv("write_test", test, test_csv, "done")
WriteTestFails == ToCsvFails("write_test")

Next ==
    \/ Fetch
    \/ FetchFails
    \/ Concatenate
    \/ PrintDataset
    \/ SplitTrainOther
    \/ SplitTrainOtherFails
    \/ SplitValidationTest
    \/ SplitValidationTestFails
    \/ PrintTrain
    \/ PrintValidation
    \/ PrintTest
    \/ WriteTrain
    \/ WriteTrainFails
    \/ WriteValidation
    \/ WriteValidationFails
    \/ WriteTest
    \/ WriteTestFails

Spec == Init /\ [][Next]_vars

\* The interpreter runs the next statement, and every library call returns
\* or raises.
FairSpec == Spec /\ WF_vars(Next)

----
(***************************************************************************)
(* Vocabulary of the properties.                                           *)
(***************************************************************************)
Range(s) == {s[k] : k \in DOMAIN s}

NumRows == Len(dataset)
NumFeatures == shape(databunch.data)[2]

\* Both splits have returned.
BothSplit ==
    \/ pc \in {"print_train", "print_validation", "print_test",
               "write_train", "write_validation", "write_test", "done"}
    \/ pc = "failed" /\ err = "OSError"

WritePcs == {"write_train", "write_validation", "write_test"}
Terminated == pc \in {"done", "failed"}
WriteOrder == <<train_csv, validation_csv, test_csv>>

\* The partition the script writes to a path.
PartitionOf(path) ==
    IF path = train_csv THEN train
    ELSE IF path = validation_csv THEN validation ELSE test

PartitionIdxOf(path) ==
    IF path = train_csv THEN trainIdx
    ELSE IF path = validation_csv THEN validationIdx ELSE testIdx

\* Reading a CSV line back: the fields between the commas, and the number a
\* field denotes.
RECURSIVE SplitFields(_, _, _)
SplitFields(line, i, cur) ==
    IF i > Len(line) THEN <<cur>>
    ELSE IF SubSeq(line, i, i) = "," THEN <<cur>> \o SplitFields(line, i + 1, "")
    ELSE SplitFields(line, i + 1, cur \o SubSeq(line, i, i))

FieldsOf(line) == SplitFields(line, 1, "")

IsFloatText(s) ==
    /\ Len(s) >= 3
    /\ SubSeq(s, Len(s) - 1, Len(s)) = ".0"
    /\ \A i \in 1..(Len(s) - 2) : SubSeq(s, i, i) \in Range(DigitChars)

RECURSIVE ParseInt(_, _, _)
ParseInt(s, i, acc) ==
    IF i > Len(s) THEN acc
    ELSE ParseInt(s, i + 1,
                  10 * acc + (CHOOSE d \in 0..9 : DigitChars[d + 1] = SubSeq(s, i, i)))

ParseFloat(s) == ParseInt(SubSeq(s, 1, Len(s) - 2), 1, 0)

\* C1: once both splits have returned, every row index of the combined
\* matrix occurs exactly once in train, validation and test taken together,
\* each partition holds the rows at its indices, and the three sizes add up
\* to the row count.
C1_Partition ==
    BothSplit =>
        LET all == trainIdx \o validationIdx \o testIdx
        IN  /\ \A i \in 1..NumRows :
                   Cardinality({k \in 1..Len(all) : all[k] = i}) = 1
            /\ Range(all) = 1..NumRows
            /\ train = [k \in 1..Len(trainIdx) |-> dataset[trainIdx[k]]]
            /\ validation = [k \in 1..Len(validationIdx) |-> dataset[validationIdx[k]]]
            /\ test = [k \in 1..Len(testIdx) |-> dataset[testIdx[k]]]
            /\ Len(train) + Len(validation) + Len(test) = NumRows

C1_Witness ==
    /\ pc = "done"
    /\ NumRows = MaxRows
    /\ Len(validation) = 1 /\ Len(test) = 2
    /\ trainIdx[1] # Len(other) + 1

\* C2: every line of every written file, read back, is a row of the
\* combined matrix: its first field is the target of the sample the row was
\* selected from and its other fields are that sample's features, in the
\* order of the feature matrix.
C2_RowsUnchanged ==
    \A path \in Range(written) :
        LET lines == files[path].lines
            idx   == PartitionIdxOf(path)
        IN  /\ Len(lines) = Len(idx)
            /\ \A k \in 1..Len(lines) :
                  LET fields == FieldsOf(lines[k])
                      i      == idx[k]
                  IN  /\ Len(fields) = NumFeatures + 1
                      /\ \A c \in 1..Len(fields) : IsFloatText(fields[c])
                      /\ ParseFloat(fields[1]) = databunch.target[i]
                      /\ \A j \in 1..NumFeatures :
                             ParseFloat(fields[j + 1]) = databunch.data[i][j]

C2_Witness ==
    /\ pc = "done"
    /\ NumFeatures = 3
    /\ \E k \in 1..Len(test) :
           /\ testIdx[k] # k
           /\ test[k][1] >= 10
           /\ test[k][1] # test[k][2]

\* C3: the sizes are fixed by the row count n.  After the first split the
\* held-out rows number n/10 rounded up and train has the rest; after the
\* second split validation and test share the held-out rows and differ by at
\* most one row; 100 rows give 90, 5 and 5, in memory and in the files.
C3_Sizes ==
    /\ (pc = "split_validation_test" \/ BothSplit) =>
           /\ 10 * Len(other) >= NumRows
           /\ 10 * (Len(other) - 1) < NumRows
           /\ Len(train) = NumRows - Len(other)
    /\ BothSplit =>
           /\ Len(validation) + Len(test) = Len(other)
           /\ Len(test) - Len(validation) \in {-1, 0, 1}
           /\ NumRows = 100 =>
                  <<Len(train), Len(validation), Len(test)>> = <<90, 5, 5>>
    /\ (pc = "done" /\ NumRows = 100) =>
           /\ Len(files[train_csv].lines) = 90
           /\ Len(files[validation_csv].lines) = 5
           /\ Len(files[test_csv].lines) = 5

C3_Witness ==
    /\ pc = "done"
    /\ NumRows = 100
    /\ NumFeatures = 3
    /\ Len(files[train_csv].lines) = 90

\* C4: a written file has one line for each row of its partition, every
\* line has f + 1 comma-separated fields, each of them a number: there is no
\* line of column labels and no column of row labels.
C4_FileShape ==
    \A path \in Range(written) :
        LET lines == files[path].lines
        IN  /\ files[path].exists
            /\ Len(lines) = Len(PartitionOf(path))
            /\ \A k \in 1..Len(lines) :
                   /\ Len(FieldsOf(lines[k])) = NumFeatures + 1
                   /\ \A c \in 1..(NumFeatures + 1) :
                          IsFloatText(FieldsOf(lines[k])[c])

C4_Witness ==
    /\ pc = "done"
    /\ NumFeatures = 2
    /\ Len(files[train_csv].lines) = 10
    /\ Len(files[validation_csv].lines) = 1
    /\ Len(files[test_csv].lines) = 1

\* C5: the files the run has written are a prefix of train, validation,
\* test; a file not yet written is as the run found it.
C5_WritePrefix ==
    /\ \E m \in 0..3 : written = SubSeq(WriteOrder, 1, m)
    /\ \A path \in Paths :
           IF path \in Range(written)
           THEN files[path] = File(to_csv(PartitionOf(path), FALSE, FALSE))
           ELSE files[path] \in {Absent, Stale}
    /\ pc = "failed" => Len(written) \in {0, 1, 2}

C5_Witness ==
    /\ pc = "failed"
    /\ written = <<train_csv>>
    /\ files[validation_csv] = Stale
    /\ files[test_csv] = Absent

\* C6: the run ends, done or failed.  Every step moves forward in the
\* script, so no statement runs twice; nothing follows a failure or the
\* last statement; done means all three files were written and nothing was
\* raised, failed means something was raised.
StatementOrder ==
    <<"fetch", "concatenate", "print_dataset", "split_train_other",
      "split_validation_test", "print_train", "print_validation", "print_test",
      "write_train", "write_validation", "write_test", "done", "failed">>

Position(p) == CHOOSE k \in 1..Len(StatementOrder) : StatementOrder[k] = p

C6_Fatal ==
    /\ <>Terminated
    /\ [][~Terminated /\ Position(pc') > Position(pc)]_vars
    /\ [](pc = "done" => written = WriteOrder /\ err = "none")
    /\ [](pc = "failed" => err # "none" /\ written # WriteOrder)

C6_Witness ==
    /\ pc = "failed"
    /\ err = "OSError"
    /\ written = <<train_csv, validation_csv>>

\* C7, as claimed: a completed run has printed exactly three lines.
C7_ThreeLines == pc = "done" => Len(stdout) = 3

\* C7, amended: a completed run has printed exactly four lines, the shapes
\* of the combined matrix, train, validation and test, in that order.
C7_FourLines ==
    pc = "done" =>
        stdout = <<[text |-> "Dataset shape = ", shape |-> <<NumRows, NumFeatures + 1>>],
                   [text |-> "Train shape = ", shape |-> <<Len(train), NumFeatures + 1>>],
                   [text |-> "Validation shape = ",
                    shape |-> <<Len(validation), NumFeatures + 1>>],
                   [text |-> "Test shape = ", shape |-> <<Len(test), NumFeatures + 1>>]>>

C7_Witness ==
    /\ pc = "done"
    /\ Len(stdout) = 4
    /\ stdout[1].shape = <<100, 4>>
    /\ stdout[4].shape = <<5, 4>>

\* C8: whatever the two splits of a run selected, the same dataset can be
\* split otherwise: some other outcome of the two permutations gives a
\* different train, validation or test selection.
C8_NotDeterministic ==
    BothSplit =>
        \E s1 \in RandomStates(NumRows) :
            LET r1 == train_test_split(dataset, TestSizeOtherNum, TestSizeOtherDen, s1)
            IN  \E s2 \in RandomStates(Len(r1.test)) :
                    LET r2 == train_test_split(r1.test, TestSizeTestNum,
                                               TestSizeTestDen, s2)
                    IN  <<r1.ind_train,
                          safe_indexing(r1.ind_test, r2.ind_train),
                          safe_indexing(r1.ind_test, r2.ind_test)>>
                        # <<trainIdx, validationIdx, testIdx>>

\* A completed run whose selection is not the one the identity permutation
\* gives.
C8_Witness ==
    /\ pc = "done"
    /\ NumRows = 11
    /\ <<trainIdx, validationIdx, testIdx>>
           # <<<<3, 4, 5, 6, 7, 8, 9, 10, 11>>, <<2>>, <<1>>>>
    /\ Range(testIdx) # {1}

\* C9: the step of the second split reads the held-out rows only: when it
\* returns, validation and test are rows of other, together they are all of
\* other, each once, and train and other are as the first split left them.
C9_SecondStage ==
    [][(pc = "split_validation_test" /\ pc' # "failed") =>
           /\ train' = train /\ trainIdx' = trainIdx
           /\ other' = other /\ otherIdx' = otherIdx
           /\ Range(validationIdx') \cup Range(testIdx') = Range(otherIdx)
           /\ Range(validationIdx') \cap Range(testIdx') = {}
           /\ Len(validationIdx') + Len(testIdx') = Len(otherIdx)
           /\ Range(validationIdx') \cap Range(trainIdx) = {}
           /\ Range(testIdx') \cap Range(trainIdx) = {}
           /\ validation' = [k \in 1..Len(validationIdx') |-> dataset[validationIdx'[k]]]
           /\ test' = [k \in 1..Len(testIdx') |-> dataset[testIdx'[k]]]]_vars

C9_Witness ==
    /\ pc = "print_train"
    /\ Len(other) = 3
    /\ Range(validationIdx) \cup Range(testIdx) = Range(otherIdx)
    /\ validationIdx # <<otherIdx[3]>>

\* C10: no step before line 25 touches the files, and a run that fails in
\* the fetch or in a split ends with nothing written.
C10_NoEarlyWrite ==
    [][/\ pc \notin WritePcs => files' = files /\ written' = written
       /\ (pc \notin WritePcs /\ pc' = "failed") => written' = <<>>]_vars

C10_Witness ==
    /\ pc = "failed"
    /\ err = "ValueError"
    /\ Len(other) = 1
    /\ written = <<>>
    /\ files[train_csv] = Stale
    /\ files[test_csv] = Absent

====
